---- MODULE Spec2Model ----
(***************************************************************************)
(* A model of idautils.py (IDAPython build 1.2.90): the utility layer on   *)
(* top of the IDA engine.  The engine (idaapi / idc) is modelled by the    *)
(* state it keeps (interaction mode, segments, memory bytes, string list,  *)
(* heads) and the answers its calls give; the functions of idautils.py are *)
(* modelled step by step as the Python 2 interpreter runs them.            *)
(***************************************************************************)
EXTENDS Integers, Sequences, FiniteSets, TLC

VARIABLES
    \* ---- engine: interaction mode and segments; Assemble / _Assemble ----
    batch,      \* idaapi.cvar.batch, the engine's interaction mode (0 / 1)
    segEnd,     \* the one segment of the image is [SegBase, segEnd)
    asmPc,      \* "idle", "loop", "returned", "raised"
    asmLines,   \* _Assemble: lines (a sequence, or NotIterable)
    asmStart,   \* the ea given to Assemble
    asmEa,      \* _Assemble: ea
    asmIdx,     \* _Assemble: position of the for loop in lines
    asmRet,     \* _Assemble: ret
    asmOld,     \* Assemble: old_batch
    asmBatch0,  \* history: the mode immediately before the call
    asmLog,     \* engine: what AssembleLine was asked and what it answered
    asmResult,  \* what Assemble returned
    \* ---- engine: memory; GetDataList / PutDataList / MapDataList ----
    mem,        \* the engine's bytes, address -> 0..255
    mem0,       \* history: the bytes when the call was made
    memPc,      \* "idle", "gen", "map", "put", "done", "raised"
    memCall,    \* the call: op, ea, count, itemsize, func, vals
    gen,        \* the GetDataList generator: state, curea, endea
    put,        \* PutDataList: ea, datalist (src, func), position
    memOut,     \* the values handed out so far (to the caller, or to map)
    memErr,     \* the error that left the call
    rdLog,      \* history: addresses GetDataList read, in order
    wrLog,      \* history: (address, value) PutDataList patched, in order
    rdAfterWr,  \* history: some GetDataList read came after a patch
    \* ---- engine: string list; class Strings ----
    strDB,      \* the addresses of the image at which a string lies
    strOpts,    \* the options given to idaapi.set_strlist_options
    strlist,    \* the engine's string list, as the last refresh_strlist left it
    strScan,    \* history: the range of the last refresh_strlist call
    strMade,    \* a Strings object has been constructed
    size,       \* Strings.size
    si,         \* Strings._si, the string_info_t the engine fills
    strOp,      \* history: the last method called on the object
    strLastQty, \* history: get_strlist_qty() at the object's last refresh
    strGet,     \* history: what the last __getitem__ gave
    \* ---- engine: heads; Heads ----
    headSet,    \* the addresses that start an instruction or data item
    hPc,        \* the Heads generator: "none", "created", "running", "done"
    hArgs,      \* the start and end given to Heads
    hEa,        \* Heads: ea
    hEnd,       \* Heads: end, once defaulted
    hOut,       \* history: the addresses yielded so far
    \* ---- engine: register names; procregs (class _procregs) ----
    regTable,   \* the registers the engine's parser knows: name -> number and size
    procDict,   \* procregs.__dict__: name -> _reg_dtyp_t
    regSeen,    \* history: name -> the descriptor its first resolution gave
    regFailed,  \* history: the names whose resolution has failed
    regOp,      \* history: the last access to procregs
    \* ---- engine: register values; cpu (class _cpu) ----
    cpuRegs,    \* the engine's registers: name -> value
    cpuDict,    \* cpu.__dict__
    cpuWritten, \* history: name -> the last value assigned through cpu
    cpuOp,      \* history: the last access to cpu and the engine calls it made
    \* ---- engine: cross-references; XrefsFrom / XrefsTo ----
    xrefTable,  \* the engine's cross-references, in the order it enumerates them
    xPc,        \* the generator: "none", "created", "running", "done"
    xArgs,      \* the call: direction, ea, flags
    xCur,       \* xref, the engine's xrefblk_t cursor
    xOut,       \* the objects yielded so far
    xSteps,     \* history: the cursor's fields at each yield
    \* ---- engine: instruction decoder; DecodeInstruction ----
    decInsn,    \* what the engine decodes at DecodeAddr: length, current record, operands
    dPc,        \* DecodeInstruction: "none", "loop", "returned"
    dEa,        \* the ea given to DecodeInstruction
    dN,         \* DecodeInstruction: n, the operand index of the for loop
    dOperands,  \* DecodeInstruction: r.Operands
    dResult,    \* what DecodeInstruction returned: "none", "None", "insn"
    dAsked,     \* history: the operand indexes asked of the engine, in order
    \* ---- engine: functions; Functions ----
    funcSet,    \* the engine's functions, each [startEA, endEA)
    fPc,        \* the Functions generator: "none", "created", "running", "done"
    fArgs,      \* the start and end given to Functions
    fFunc,      \* Functions: func
    fEnd,       \* Functions: end, once defaulted
    fOut,       \* history: the addresses yielded so far
    \* ---- engine: references of an address; refs ----
    refFirst,   \* the engine's first reference of RefSeed, or BADADDR
    refNext,    \* the engine's next reference of RefSeed after each reference, or BADADDR
    rPc,        \* the refs generator: "none", "created", "running", "done"
    rEa,        \* refs: ea
    rRef,       \* refs: ref
    rOut,       \* history: the references yielded, the last RefsKept of them
    rCalls,     \* history: the calls of funcfirst and funcnext that gave them
    rDropped    \* history: earlier references have left rOut

asmVars == <<batch, segEnd, asmPc, asmLines, asmStart, asmEa, asmIdx, asmRet,
             asmOld, asmBatch0, asmLog, asmResult>>

memVars == <<mem, mem0, memPc, memCall, gen, put, memOut, memErr, rdLog, wrLog,
             rdAfterWr>>

strVars == <<strDB, strOpts, strlist, strScan, strMade, size, si, strOp, strLastQty,
             strGet>>

headVars == <<headSet, hPc, hArgs, hEa, hEnd, hOut>>

regVars == <<regTable, procDict, regSeen, regFailed, regOp>>

cpuVars == <<cpuRegs, cpuDict, cpuWritten, cpuOp>>

xrefVars == <<xrefTable, xPc, xArgs, xCur, xOut, xSteps>>

decVars == <<decInsn, dPc, dEa, dN, dOperands, dResult, dAsked>>

funcVars == <<funcSet, fPc, fArgs, fFunc, fEnd, fOut>>

refsVars == <<refFirst, refNext, rPc, rEa, rRef, rOut, rCalls, rDropped>>

vars == <<asmVars, memVars, strVars, headVars, regVars, cpuVars, xrefVars, decVars,
          funcVars, refsVars>>

notAsm == <<memVars, strVars, headVars, regVars, cpuVars, xrefVars, decVars, funcVars, refsVars>>
notMem == <<asmVars, strVars, headVars, regVars, cpuVars, xrefVars, decVars, funcVars, refsVars>>
notStr == <<asmVars, memVars, headVars, regVars, cpuVars, xrefVars, decVars, funcVars, refsVars>>
notHeads == <<asmVars, memVars, strVars, regVars, cpuVars, xrefVars, decVars, funcVars, refsVars>>
notRegs == <<asmVars, memVars, strVars, headVars, cpuVars, xrefVars, decVars, funcVars, refsVars>>
notCpu == <<asmVars, memVars, strVars, headVars, regVars, xrefVars, decVars, funcVars, refsVars>>
notXrefs == <<asmVars, memVars, strVars, headVars, regVars, cpuVars, decVars, funcVars, refsVars>>
notDecode == <<asmVars, memVars, strVars, headVars, regVars, cpuVars, xrefVars, funcVars, refsVars>>
notFuncs == <<asmVars, memVars, strVars, headVars, regVars, cpuVars, xrefVars, decVars, refsVars>>
notRefs == <<asmVars, memVars, strVars, headVars, regVars, cpuVars, xrefVars, decVars, funcVars>>

-----------------------------------------------------------------------------
(* Bounds of the model *)

\* longest list of lines given to Assemble
MaxLines == 3
\* longest segment, in bytes
MaxSegLen == 4
\* bytes of engine memory, addresses 0 .. MemSize-1
MemSize == 8
\* largest word count given to GetDataList / MapDataList, longest value list
MaxCount == 3

\* bytes of the image whose strings and heads are walked
ImageLen == 4

\* most cross-references in the engine's table
MaxXrefs == 3

\* the addresses a reference may be: 1 .. MaxRefAddr
MaxRefAddr == 3

-----------------------------------------------------------------------------
(* The engine's image *)

\* idaapi.cvar.inf.minEA and maxEA: the image is [MinEA, MaxEA)
MinEA == 1
MaxEA == MinEA + ImageLen
ImageAddrs == MinEA .. (MaxEA - 1)
\* idaapi.BADADDR: all ones, here in eight bits
BADADDR == 255
\* None, the default of an address parameter
NoneArg == -1
\* Python's `not x' for an address parameter: true of None and of 0
Falsy(x) == x = NoneArg \/ x = 0
\* the values an address parameter is given
AddrArgs == {NoneArg} \cup (0 .. (MaxEA + 1))

-----------------------------------------------------------------------------
(* Scoped assembler invocation: Assemble / _Assemble *)

\* the paragraph ask_selector gives for the segment's selector
SegPara == 1
\* ask_selector(sel) << 4
SegBase == SegPara * 16
SegSel == 1
SegBitness == 1

AsmAddrs == (SegBase - 1) .. (SegBase + MaxSegLen)

\* A line element that is not a string: idaapi.AssembleLine raises TypeError.
NonStr == "<not a string>"
\* A `line' argument that is neither a string nor iterable (an integer).
NotIterable == "<not iterable>"

Lines == {"nop", "mov", "bad", NonStr}

RECURSIVE SeqsUpTo(_, _)
SeqsUpTo(S, n) ==
    IF n = 0 THEN {<<>>}
    ELSE LET shorter == SeqsUpTo(S, n - 1)
         IN  shorter \cup {Append(s, x) : s \in {t \in shorter : Len(t) = n - 1}, x \in S}

\* The `line' argument of Assemble: one string, a list of lines, or neither.
AsmArgs ==
    {[kind |-> "str", s |-> l, l |-> <<>>] : l \in Lines \ {NonStr}}
    \cup {[kind |-> "list", s |-> "", l |-> ls] : ls \in SeqsUpTo(Lines, MaxLines)}
    \cup {[kind |-> "other", s |-> "", l |-> <<>>]}

\* idaapi.getseg(ea): the segment holding ea, or none
getseg(ea) == ea >= SegBase /\ ea < segEnd

\* idaapi.AssembleLine(ea, cs, ip, use32, line): the bytes of the line, or
\* nothing when the assembler rejects it
AssemblerRaises(line) == line = NonStr
AssembleLine(ea, cs, ip, use32, line) ==
    IF line = "nop" THEN <<144>>
    ELSE IF line = "mov" THEN <<137, 216>>
    ELSE <<>>

\* _Assemble, lines 458-461: lines = [line] for a string, else line itself
LinesOf(arg) ==
    IF arg.kind = "str" THEN <<arg.s>>
    ELSE IF arg.kind = "list" THEN arg.l
    ELSE NotIterable

\* _Assemble, line 467
InstrPointer(ea) == ea - SegBase

\* NextEa with a fault: the address advances by one byte per line
NextEaByOne(ea, buf) == ea + 1
\* _Assemble, line 471: ea += len(buf)
NextEa(ea, buf) == ea + Len(buf)

NoResult == [kind |-> "none", msg |-> "", bufs |-> <<>>]
Failure(m) == [kind |-> "fail", msg |-> m, bufs |-> <<>>]
\* _Assemble, lines 474-476: one buffer alone is returned bare
Success(ret) ==
    IF Len(ret) = 1 THEN [kind |-> "one", msg |-> "", bufs |-> <<ret[1]>>]
    ELSE [kind |-> "many", msg |-> "", bufs |-> ret]

\* no call of Assemble is under way
AsmIdle ==
    /\ asmPc = "idle"
    /\ asmLines = <<>>
    /\ asmStart = SegBase
    /\ asmEa = SegBase
    /\ asmIdx = 1
    /\ asmRet = <<>>
    /\ asmOld = 0
    /\ asmBatch0 = 0
    /\ asmLog = <<>>
    /\ asmResult = NoResult

InitAsm ==
    /\ batch \in {0, 1}
    /\ segEnd \in (SegBase + 1) .. (SegBase + MaxSegLen)
    /\ AsmIdle

\* the engine as the other components find it
RestAsm ==
    /\ batch = 0
    /\ segEnd = SegBase + 1
    /\ AsmIdle

\* Assemble(ea, line) up to the start of _Assemble's loop:
\* old_batch = idc.Batch(1), then lines is set up.
AssembleCall(ea, arg) ==
    /\ asmPc = "idle"
    /\ asmBatch0' = batch
    /\ asmOld' = batch
    /\ batch' = 1
    /\ asmLines' = LinesOf(arg)
    /\ asmStart' = ea
    /\ asmEa' = ea
    /\ asmIdx' = 1
    /\ asmRet' = <<>>
    /\ asmLog' = <<>>
    /\ asmResult' = NoResult
    /\ asmPc' = "loop"
    /\ UNCHANGED <<segEnd, notAsm>>

AsmHasLine == asmPc = "loop" /\ asmLines # NotIterable /\ asmIdx <= Len(asmLines)

\* `for line in lines' on something that cannot be iterated: TypeError leaves
\* _Assemble and Assemble; line 490 is not reached.
AsmLoopRaises ==
    /\ asmPc = "loop"
    /\ asmLines = NotIterable
    /\ asmPc' = "raised"
    /\ UNCHANGED <<batch, segEnd, asmLines, asmStart, asmEa, asmIdx, asmRet,
                   asmOld, asmBatch0, asmLog, asmResult, notAsm>>

\* lines 464-466 and 490: no segment at ea
AsmNoSegment ==
    /\ AsmHasLine
    /\ ~getseg(asmEa)
    /\ asmResult' = Failure("No segment at ea")
    /\ batch' = asmOld
    /\ asmPc' = "returned"
    /\ UNCHANGED <<segEnd, asmLines, asmStart, asmEa, asmIdx, asmRet, asmOld,
                   asmBatch0, asmLog, notAsm>>

\* line 468 raising: the error leaves _Assemble and Assemble
AsmLineRaises ==
    /\ AsmHasLine
    /\ getseg(asmEa)
    /\ AssemblerRaises(asmLines[asmIdx])
    /\ asmPc' = "raised"
    /\ UNCHANGED <<batch, segEnd, asmLines, asmStart, asmEa, asmIdx, asmRet,
                   asmOld, asmBatch0, asmLog, asmResult, notAsm>>

\* lines 468-470 and 490: the assembler rejects the line
AsmReject ==
    /\ AsmHasLine
    /\ getseg(asmEa)
    /\ ~AssemblerRaises(asmLines[asmIdx])
    /\ LET line == asmLines[asmIdx]
           buf  == AssembleLine(asmEa, SegSel, InstrPointer(asmEa), SegBitness, line)
       IN  /\ buf = <<>>
           /\ asmLog' = Append(asmLog, [ea |-> asmEa, ip |-> InstrPointer(asmEa),
                                        line |-> line, buf |-> buf])
           /\ asmResult' = Failure("Assembler failed: " \o line)
    /\ batch' = asmOld
    /\ asmPc' = "returned"
    /\ UNCHANGED <<segEnd, asmLines, asmStart, asmEa, asmIdx, asmRet, asmOld,
                   asmBatch0, notAsm>>

\* lines 468-472: the line is assembled, ea advances, the buffer is kept
AsmAccept ==
    /\ AsmHasLine
    /\ getseg(asmEa)
    /\ ~AssemblerRaises(asmLines[asmIdx])
    /\ LET line == asmLines[asmIdx]
           buf  == AssembleLine(asmEa, SegSel, InstrPointer(asmEa), SegBitness, line)
       IN  /\ buf # <<>>
           /\ asmLog' = Append(asmLog, [ea |-> asmEa, ip |-> InstrPointer(asmEa),
                                        line |-> line, buf |-> buf])
           /\ asmEa' = NextEa(asmEa, buf)
           /\ asmRet' = Append(asmRet, buf)
    /\ asmIdx' = asmIdx + 1
    /\ UNCHANGED <<batch, segEnd, asmPc, asmLines, asmStart, asmOld, asmBatch0,
                   asmResult, notAsm>>

\* lines 474-476 and 490-491: every line was assembled
AsmFinish ==
    /\ asmPc = "loop"
    /\ asmLines # NotIterable
    /\ asmIdx > Len(asmLines)
    /\ asmResult' = Success(asmRet)
    /\ batch' = asmOld
    /\ asmPc' = "returned"
    /\ UNCHANGED <<segEnd, asmLines, asmStart, asmEa, asmIdx, asmRet, asmOld,
                   asmBatch0, asmLog, notAsm>>

\* The caller has the result (or the error) in hand and the call's locals are
\* gone; the engine keeps the mode the call left.
AsmCallOver ==
    /\ asmPc \in {"returned", "raised"}
    /\ asmPc' = "idle"
    /\ asmLines' = <<>>
    /\ asmStart' = SegBase
    /\ asmEa' = SegBase
    /\ asmIdx' = 1
    /\ asmRet' = <<>>
    /\ asmOld' = 0
    /\ asmBatch0' = 0
    /\ asmLog' = <<>>
    /\ asmResult' = NoResult
    /\ UNCHANGED <<batch, segEnd, notAsm>>

NextAsm ==
    \/ \E ea \in AsmAddrs, arg \in AsmArgs : AssembleCall(ea, arg)
    \/ AsmCallOver
    \/ AsmLoopRaises
    \/ AsmNoSegment
    \/ AsmLineRaises
    \/ AsmReject
    \/ AsmAccept
    \/ AsmFinish

-----------------------------------------------------------------------------
(* Typed memory accessor: GetDataList / PutDataList / MapDataList *)

MemAddrs == 0 .. (MemSize - 1)
Widths == {1, 2, 3, 4, 8}
Counts == (0 - 1) .. MaxCount
\* the mapping functions given to MapDataList: identity, add one, add the
\* byte the engine now holds at the start address, fail on an odd word
Funcs == {"id", "inc", "addfirst", "failodd"}
PutVals == {1, 258}

RECURSIVE Pow256(_)
Pow256(n) == IF n = 0 THEN 1 ELSE 256 * Pow256(n - 1)

\* idaapi.get_byte / get_word / get_long / get_qword: little-endian words
RECURSIVE ReadWord(_, _, _)
ReadWord(m, ea, w) ==
    IF w = 0 THEN 0 ELSE m[ea] + 256 * ReadWord(m, ea + 1, w - 1)

\* idaapi.patch_byte / patch_word / patch_long: the low w bytes of val
PatchWord(m, ea, val, w) ==
    [a \in DOMAIN m |->
        IF a >= ea /\ a < ea + w THEN (val \div Pow256(a - ea)) % 256 ELSE m[a]]

\* GetDataList, lines 318-327: the width of the read primitive, 0 for none
GetDataFn(itemsize) ==
    IF itemsize = 1 THEN 1
    ELSE IF itemsize = 2 THEN 2
    ELSE IF itemsize = 4 THEN 4
    ELSE IF itemsize = 8 THEN 8
    ELSE 0

\* PutDataFn with a fault: a quad patch is chosen for itemsize 8
PutDataFnWithQuad(itemsize) ==
    IF itemsize = 1 THEN 1
    ELSE IF itemsize = 2 THEN 2
    ELSE IF itemsize = 4 THEN 4
    ELSE IF itemsize = 8 THEN 8
    ELSE 0
\* PutDataList, lines 340-347: the width of the patch primitive, 0 for None
PutDataFn(itemsize) ==
    IF itemsize = 1 THEN 1
    ELSE IF itemsize = 2 THEN 2
    ELSE IF itemsize = 4 THEN 4
    ELSE 0

\* PutNextEa with a fault: the address advances by one byte per value
PutNextEaByOne(ea, itemsize) == ea + 1
\* PutDataList, line 353: ea = ea + itemsize
PutNextEa(ea, itemsize) == ea + itemsize

\* the mapping function applied to one word; "addfirst" reads the engine
FuncRaises(f, v) == f = "failodd" /\ v % 2 = 1
ApplyFunc(f, v, m, base) ==
    IF f = "inc" THEN v + 1
    ELSE IF f = "addfirst" THEN v + m[base]
    ELSE v

NoGen == [state |-> "none", ea |-> 0, count |-> 0, itemsize |-> 0,
          curea |-> 0, endea |-> 0]
\* GetDataList(ea, count, itemsize) called: a generator, its body not begun
NewGen(ea, count, itemsize) ==
    [state |-> "created", ea |-> ea, count |-> count, itemsize |-> itemsize,
     curea |-> 0, endea |-> 0]

\* One next() on the generator (lines 318-333): the generator afterwards and
\* what next() gave: "value" (a word read at g.curea), "stop", or "error".
GenStep(g) ==
    IF g.state = "created" THEN
        IF GetDataFn(g.itemsize) = 0
        THEN [g |-> [g EXCEPT !.state = "raised"], out |-> "error"]
        ELSE LET endea == g.ea + g.itemsize * g.count
             IN  IF g.ea < endea
                 THEN [g |-> [g EXCEPT !.state = "running", !.curea = g.ea,
                                       !.endea = endea],
                       out |-> "value"]
                 ELSE [g |-> [g EXCEPT !.state = "done", !.curea = g.ea,
                                       !.endea = endea],
                       out |-> "stop"]
    ELSE IF g.state = "running" THEN
        LET curea == g.curea + g.itemsize
        IN  IF curea < g.endea
            THEN [g |-> [g EXCEPT !.curea = curea], out |-> "value"]
            ELSE [g |-> [g EXCEPT !.state = "done", !.curea = curea], out |-> "stop"]
    ELSE [g |-> g, out |-> "stop"]

\* MapDataListArg with a fault: map() hands PutDataList a lazy iterator
MapDataListArgLazy(func) == [src |-> "gen", func |-> func]
\* MapDataList, line 367: map(func, GetDataList(...)) is a list, built in
\* full before PutDataList is called
MapDataListArg(func) == [src |-> "list", func |-> func]

NoPut == [ea |-> 0, itemsize |-> 0, src |-> "list", func |-> "id", idx |-> 1]
NoCall == [op |-> "none", ea |-> 0, count |-> 0, itemsize |-> 0, func |-> "id",
           vals |-> <<>>]

\* the words of the call lie in engine memory
InMemory(ea, n, w) == ea + w * n <= MemSize

\* The image: four bytes of data, then zero bytes.  Every word of up to
\* eight bytes read from it is below 2^31.
MemPattern(seed) == [a \in MemAddrs |-> IF a < 4 THEN (a * 37 + seed) % 128 ELSE 0]

MemIdle ==
    /\ mem0 = mem
    /\ memPc = "idle"
    /\ memCall = NoCall
    /\ gen = NoGen
    /\ put = NoPut
    /\ memOut = <<>>
    /\ memErr = "none"
    /\ rdLog = <<>>
    /\ wrLog = <<>>
    /\ rdAfterWr = FALSE

InitMem ==
    /\ mem \in {MemPattern(7), MemPattern(90)}
    /\ MemIdle

RestMem ==
    /\ mem = MemPattern(7)
    /\ MemIdle

\* PutDataList, lines 340-349, entered with `datalist': the assertion
EnterPut(ea, itemsize, arg) ==
    IF PutDataFn(itemsize) = 0
    THEN /\ memPc' = "raised"
         /\ memErr' = "AssertionError"
         /\ put' = NoPut
    ELSE /\ memPc' = "put"
         /\ memErr' = "none"
         /\ put' = [ea |-> ea, itemsize |-> itemsize, src |-> arg.src,
                    func |-> arg.func, idx |-> 1]

\* GetDataList(ea, count, itemsize): the caller gets a generator; no line of
\* the body has run.
GetDataListCall(ea, count, itemsize) ==
    /\ memPc = "idle"
    /\ InMemory(ea, count, itemsize)
    /\ memCall' = [op |-> "get", ea |-> ea, count |-> count, itemsize |-> itemsize,
                   func |-> "id", vals |-> <<>>]
    /\ gen' = NewGen(ea, count, itemsize)
    /\ memPc' = "gen"
    /\ UNCHANGED <<mem, mem0, put, memOut, memErr, rdLog, wrLog, rdAfterWr, notMem>>

\* the caller asks the generator for its next element
GenNextValue ==
    /\ memPc = "gen"
    /\ LET r == GenStep(gen)
       IN  /\ r.out = "value"
           /\ gen' = r.g
           /\ memOut' = Append(memOut, ReadWord(mem, r.g.curea, GetDataFn(gen.itemsize)))
           /\ rdLog' = Append(rdLog, r.g.curea)
    /\ UNCHANGED <<mem, mem0, memPc, memCall, put, memErr, wrLog, rdAfterWr, notMem>>

GenNextStop ==
    /\ memPc = "gen"
    /\ LET r == GenStep(gen)
       IN  /\ r.out = "stop"
           /\ gen' = r.g
    /\ memPc' = "done"
    /\ UNCHANGED <<mem, mem0, memCall, put, memOut, memErr, rdLog, wrLog, rdAfterWr,
                   notMem>>

\* line 327, run by the first next()
GenNextRaises ==
    /\ memPc = "gen"
    /\ LET r == GenStep(gen)
       IN  /\ r.out = "error"
           /\ gen' = r.g
    /\ memPc' = "raised"
    /\ memErr' = "ValueError"
    /\ UNCHANGED <<mem, mem0, memCall, put, memOut, rdLog, wrLog, rdAfterWr, notMem>>

\* PutDataList(ea, vals, itemsize) with a list of values
PutDataListCall(ea, vals, itemsize) ==
    /\ memPc = "idle"
    /\ InMemory(ea, Len(vals), itemsize)
    /\ memCall' = [op |-> "put", ea |-> ea, count |-> Len(vals), itemsize |-> itemsize,
                   func |-> "id", vals |-> vals]
    /\ memOut' = vals
    /\ EnterPut(ea, itemsize, [src |-> "list", func |-> "id"])
    /\ UNCHANGED <<mem, mem0, gen, rdLog, wrLog, rdAfterWr, notMem>>

\* PutDataList(ea, GetDataList(ea, count, itemsize), itemsize)
RoundTripCall(ea, count, itemsize) ==
    /\ memPc = "idle"
    /\ InMemory(ea, count, itemsize)
    /\ memCall' = [op |-> "roundtrip", ea |-> ea, count |-> count,
                   itemsize |-> itemsize, func |-> "id", vals |-> <<>>]
    /\ gen' = NewGen(ea, count, itemsize)
    /\ EnterPut(ea, itemsize, [src |-> "gen", func |-> "id"])
    /\ UNCHANGED <<mem, mem0, memOut, rdLog, wrLog, rdAfterWr, notMem>>

\* MapDataList(ea, length, func, wordsize): the generator is made and map()
\* begins
MapDataListCall(ea, length, func, wordsize) ==
    /\ memPc = "idle"
    /\ InMemory(ea, length, wordsize)
    /\ memCall' = [op |-> "map", ea |-> ea, count |-> length, itemsize |-> wordsize,
                   func |-> func, vals |-> <<>>]
    /\ gen' = NewGen(ea, length, wordsize)
    /\ IF MapDataListArg(func).src = "list"
       THEN /\ memPc' = "map"
            /\ UNCHANGED <<put, memErr>>
       ELSE EnterPut(ea, wordsize, MapDataListArg(func))
    /\ UNCHANGED <<mem, mem0, memOut, rdLog, wrLog, rdAfterWr, notMem>>

\* map(): one more word is read and func applied to it
MapItem ==
    /\ memPc = "map"
    /\ LET r == GenStep(gen)
           v == ReadWord(mem, r.g.curea, GetDataFn(gen.itemsize))
       IN  /\ r.out = "value"
           /\ gen' = r.g
           /\ rdLog' = Append(rdLog, r.g.curea)
           /\ rdAfterWr' = (rdAfterWr \/ wrLog # <<>>)
           /\ IF FuncRaises(memCall.func, v)
              THEN /\ memPc' = "raised"
                   /\ memErr' = "FuncError"
                   /\ UNCHANGED memOut
              ELSE /\ memOut' = Append(memOut, ApplyFunc(memCall.func, v, mem, memCall.ea))
                   /\ UNCHANGED <<memPc, memErr>>
    /\ UNCHANGED <<mem, mem0, memCall, put, wrLog, notMem>>

\* map(): the generator raises ValueError at its first next()
MapRaises ==
    /\ memPc = "map"
    /\ LET r == GenStep(gen)
       IN  /\ r.out = "error"
           /\ gen' = r.g
    /\ memPc' = "raised"
    /\ memErr' = "ValueError"
    /\ UNCHANGED <<mem, mem0, memCall, put, memOut, rdLog, wrLog, rdAfterWr, notMem>>

\* map() has its list: PutDataList is called with it
MapDone ==
    /\ memPc = "map"
    /\ LET r == GenStep(gen)
       IN  /\ r.out = "stop"
           /\ gen' = r.g
    /\ EnterPut(memCall.ea, memCall.itemsize, [src |-> "list", func |-> "id"])
    /\ UNCHANGED <<mem, mem0, memCall, memOut, rdLog, wrLog, rdAfterWr, notMem>>

\* PutDataList, lines 351-353, one value of a list
PutListItem ==
    /\ memPc = "put"
    /\ put.src = "list"
    /\ put.idx <= Len(memOut)
    /\ LET val == memOut[put.idx]
       IN  /\ mem' = PatchWord(mem, put.ea, val, PutDataFn(put.itemsize))
           /\ wrLog' = Append(wrLog, [ea |-> put.ea, val |-> val])
    /\ put' = [put EXCEPT !.ea = PutNextEa(put.ea, put.itemsize), !.idx = put.idx + 1]
    /\ UNCHANGED <<mem0, memPc, memCall, gen, memOut, memErr, rdLog, rdAfterWr, notMem>>

\* PutDataList, lines 351-353, one value drawn from a generator: the word is
\* read now, then patched
PutGenItem ==
    /\ memPc = "put"
    /\ put.src = "gen"
    /\ LET r == GenStep(gen)
           v == ReadWord(mem, r.g.curea, GetDataFn(gen.itemsize))
       IN  /\ r.out = "value"
           /\ gen' = r.g
           /\ rdLog' = Append(rdLog, r.g.curea)
           /\ rdAfterWr' = (rdAfterWr \/ wrLog # <<>>)
           /\ IF FuncRaises(put.func, v)
              THEN /\ memPc' = "raised"
                   /\ memErr' = "FuncError"
                   /\ UNCHANGED <<mem, wrLog, put, memOut>>
              ELSE LET val == ApplyFunc(put.func, v, mem, memCall.ea)
                   IN  /\ mem' = PatchWord(mem, put.ea, val, PutDataFn(put.itemsize))
                       /\ wrLog' = Append(wrLog, [ea |-> put.ea, val |-> val])
                       /\ memOut' = Append(memOut, val)
                       /\ put' = [put EXCEPT !.ea = PutNextEa(put.ea, put.itemsize),
                                             !.idx = put.idx + 1]
                       /\ UNCHANGED <<memPc, memErr>>
    /\ UNCHANGED <<mem0, memCall, notMem>>

\* PutDataList: datalist is exhausted, the call returns
PutDone ==
    /\ memPc = "put"
    /\ \/ /\ put.src = "list"
          /\ put.idx > Len(memOut)
          /\ UNCHANGED gen
       \/ /\ put.src = "gen"
          /\ LET r == GenStep(gen)
             IN  /\ r.out = "stop"
                 /\ gen' = r.g
    /\ memPc' = "done"
    /\ UNCHANGED <<mem, mem0, memCall, put, memOut, memErr, rdLog, wrLog, rdAfterWr,
                   notMem>>

NextMem ==
    \/ \E ea \in MemAddrs, n \in Counts, w \in Widths : GetDataListCall(ea, n, w)
    \/ GenNextValue
    \/ GenNextStop
    \/ GenNextRaises
    \/ \E ea \in MemAddrs, vals \in SeqsUpTo(PutVals, MaxCount), w \in Widths :
          PutDataListCall(ea, vals, w)
    \/ \E ea \in MemAddrs, n \in Counts, w \in Widths : RoundTripCall(ea, n, w)
    \/ \E ea \in MemAddrs, n \in Counts, f \in Funcs, w \in Widths :
          MapDataListCall(ea, n, f, w)
    \/ MapItem
    \/ MapRaises
    \/ MapDone
    \/ PutListItem
    \/ PutGenItem
    \/ PutDone

-----------------------------------------------------------------------------
(* String table cache: class Strings *)

STR_C == 1
STR_UNICODE == 8

\* the string lying at an address of the image: its length and its type
StringAt(ea) ==
    [ea |-> ea, length |-> ea + 3, type |-> IF ea % 2 = 0 THEN STR_C ELSE STR_UNICODE]

NoItem == [ea |-> BADADDR, length |-> 0, type |-> 0]

\* idaapi.strwinsetup_t(): the fields as the engine's constructor leaves them
StrWinSetup ==
    [strtypes |-> {}, minlen |-> 0 - 1, only_7bit |-> TRUE,
     ignore_instructions |-> FALSE, ea1 |-> BADADDR, ea2 |-> BADADDR,
     display_only_existing_strings |-> FALSE]

\* the parameters of Strings.setup, lines 430-431
SetupDefaults ==
    [strtypes |-> {STR_C}, minlen |-> 5, only_7bit |-> TRUE,
     ignore_instructions |-> FALSE, ea1 |-> NoneArg, ea2 |-> NoneArg,
     display_only_existing_strings |-> FALSE]

\* the configurations setup is called with
SetupConfigs ==
    { SetupDefaults,
      [SetupDefaults EXCEPT !.strtypes = {STR_C, STR_UNICODE}, !.minlen = 4],
      [SetupDefaults EXCEPT !.minlen = 6, !.only_7bit = FALSE,
                            !.ignore_instructions = TRUE],
      [SetupDefaults EXCEPT !.ea1 = MinEA + 1, !.ea2 = MaxEA,
                            !.display_only_existing_strings = TRUE] }

RECURSIVE SortedByEa(_)
SortedByEa(S) ==
    IF S = {} THEN <<>>
    ELSE LET lo == CHOOSE x \in S : \A y \in S : x <= y
         IN  <<StringAt(lo)>> \o SortedByEa(S \ {lo})

\* idaapi.refresh_strlist(ea1, ea2): the strings of [ea1, ea2) that the scan
\* options let through, by address; an empty range clears the list
refresh_strlist(db, opts, ea1, ea2) ==
    SortedByEa({ea \in db : /\ ea >= ea1
                            /\ ea < ea2
                            /\ StringAt(ea).length >= opts.minlen
                            /\ StringAt(ea).type \in opts.strtypes})

\* idaapi.get_strlist_qty()
get_strlist_qty(list) == Len(list)

\* idaapi.get_strlist_item(index, si): whether the list has the item
get_strlist_item(list, index) == index >= 0 /\ index < Len(list)

\* Strings.refresh, lines 425-426: the range after the defaults
RefreshEa1(ea1) == IF Falsy(ea1) THEN MinEA ELSE ea1
RefreshEa2(ea2) == IF Falsy(ea2) THEN MaxEA ELSE ea2

\* Strings.setup, lines 432-440: the strwinsetup_t given to the engine
SetupOptions(c) ==
    [StrWinSetup EXCEPT
        !.strtypes = c.strtypes,
        !.minlen = c.minlen,
        !.only_7bit = c.only_7bit,
        !.ea1 = IF Falsy(c.ea1) THEN MinEA ELSE c.ea1,
        !.ea2 = IF Falsy(c.ea2) THEN MaxEA ELSE c.ea2,
        !.display_only_existing_strings = c.display_only_existing_strings]

\* the last method called: its name and its arguments (cfg: the parameters
\* given to setup)
NoOp == [op |-> "none", ea1 |-> NoneArg, ea2 |-> NoneArg, index |-> 0,
         cfg |-> SetupDefaults]
NoGet == [kind |-> "none", asked |-> 0, item |-> NoItem]

StrIdle ==
    /\ strOpts = SetupOptions(SetupDefaults)
    /\ strlist = <<>>
    /\ strScan = <<MinEA, MinEA>>
    /\ strMade = FALSE
    /\ size = 0
    /\ si = NoItem
    /\ strOp = NoOp
    /\ strLastQty = NoneArg
    /\ strGet = NoGet

InitStr ==
    /\ strDB \in {{}, {MinEA + 1}, ImageAddrs \ {MinEA}, ImageAddrs}
    /\ StrIdle

RestStr ==
    /\ strDB = {}
    /\ StrIdle

\* Strings(default_setup), lines 417-421: setup() first when asked for, then
\* _si and size are set
StringsNew(default_setup) ==
    /\ ~strMade
    /\ strMade' = TRUE
    /\ IF default_setup
       THEN LET opts == SetupOptions(SetupDefaults)
                list == refresh_strlist(strDB, opts, RefreshEa1(NoneArg),
                                        RefreshEa2(NoneArg))
            IN  /\ strOpts' = opts
                /\ strlist' = list
                /\ strScan' = <<RefreshEa1(NoneArg), RefreshEa2(NoneArg)>>
                /\ strLastQty' = get_strlist_qty(list)
       ELSE UNCHANGED <<strOpts, strlist, strScan, strLastQty>>
    /\ si' = NoItem
    /\ size' = 0
    /\ strOp' = [NoOp EXCEPT !.op = IF default_setup THEN "new+setup" ELSE "new"]
    /\ strGet' = NoGet
    /\ UNCHANGED <<strDB, notStr>>

\* the body of Strings.refresh, lines 425-428, on the arguments ea1, ea2
DoRefresh(ea1, ea2) ==
    LET list == refresh_strlist(strDB, strOpts, RefreshEa1(ea1), RefreshEa2(ea2))
    IN  /\ strlist' = list
        /\ strScan' = <<RefreshEa1(ea1), RefreshEa2(ea2)>>
        /\ size' = get_strlist_qty(list)
        /\ strLastQty' = get_strlist_qty(list)

\* Strings.refresh(ea1, ea2)
Refresh(ea1, ea2) ==
    /\ strMade
    /\ DoRefresh(ea1, ea2)
    /\ strOp' = [NoOp EXCEPT !.op = "refresh", !.ea1 = ea1, !.ea2 = ea2]
    /\ strGet' = NoGet
    /\ UNCHANGED <<strDB, strOpts, strMade, si, notStr>>

\* Strings.clear_cache(), line 415: self.refresh(0, 0)
ClearCache ==
    /\ strMade
    /\ DoRefresh(0, 0)
    /\ strOp' = [NoOp EXCEPT !.op = "clear_cache", !.ea1 = 0, !.ea2 = 0]
    /\ strGet' = NoGet
    /\ UNCHANGED <<strDB, strOpts, strMade, si, notStr>>

\* Strings.setup(...), lines 432-443: the options go to the engine, then
\* self.refresh() with no arguments
Setup(c) ==
    /\ strMade
    /\ LET opts == SetupOptions(c)
           list == refresh_strlist(strDB, opts, RefreshEa1(NoneArg), RefreshEa2(NoneArg))
       IN  /\ strOpts' = opts
           /\ strlist' = list
           /\ strScan' = <<RefreshEa1(NoneArg), RefreshEa2(NoneArg)>>
           /\ size' = get_strlist_qty(list)
           /\ strLastQty' = get_strlist_qty(list)
    /\ strOp' = [NoOp EXCEPT !.op = "setup", !.cfg = c]
    /\ strGet' = NoGet
    /\ UNCHANGED <<strDB, strMade, si, notStr>>

\* Strings.__getitem__, line 447: whether the engine is asked at all
GetItemInRange(index) == ~(index >= size)

\* Strings.__getitem__(index), lines 447-451
GetItem(index) ==
    /\ strMade
    /\ strOp' = [NoOp EXCEPT !.op = "get", !.index = index]
    /\ IF ~GetItemInRange(index)
       THEN /\ strGet' = [kind |-> "stop", asked |-> 0, item |-> NoItem]
            /\ UNCHANGED si
       ELSE IF get_strlist_item(strlist, index)
       THEN /\ si' = strlist[index + 1]
            /\ strGet' = [kind |-> "item", asked |-> 1, item |-> strlist[index + 1]]
       ELSE /\ strGet' = [kind |-> "noitem", asked |-> 1, item |-> NoItem]
            /\ UNCHANGED si
    /\ UNCHANGED <<strDB, strOpts, strlist, strScan, strMade, size, strLastQty, notStr>>

\* Another user of the engine (the strings window, another Strings object)
\* has the list rescanned: the object's size is not told.
OtherRefresh(ea1, ea2) ==
    /\ strMade
    /\ strlist' = refresh_strlist(strDB, strOpts, ea1, ea2)
    /\ strScan' = <<ea1, ea2>>
    /\ strOp' = [NoOp EXCEPT !.op = "other"]
    /\ strGet' = NoGet
    /\ UNCHANGED <<strDB, strOpts, strMade, size, si, strLastQty, notStr>>

Indexes == (0 - 1) .. ImageLen
\* the values Strings.refresh is given for ea1 and ea2
RefreshArgs == {NoneArg, 0, MinEA + 1, MaxEA}

NextStr ==
    \/ \E d \in BOOLEAN : StringsNew(d)
    \/ \E ea1 \in RefreshArgs, ea2 \in RefreshArgs : Refresh(ea1, ea2)
    \/ ClearCache
    \/ \E c \in SetupConfigs : Setup(c)
    \/ \E i \in Indexes : GetItem(i)
    \/ \E ea1 \in {MinEA}, ea2 \in {MinEA, MinEA + 2, MaxEA} : OtherRefresh(ea1, ea2)

-----------------------------------------------------------------------------
(* Unit walker: Heads *)

\* idc.isHead(idc.GetFlags(ea))
isHead(ea) == ea \in headSet

\* idaapi.next_head(ea, maxea): the first head above ea and below maxea
next_head(ea, maxea) ==
    LET later == {h \in headSet : h > ea /\ h < maxea}
    IN  IF later = {} THEN BADADDR
        ELSE CHOOSE h \in later : \A x \in later : h <= x

\* Heads, lines 190-191
HeadsStart(start) == IF Falsy(start) THEN MinEA ELSE start
HeadsEnd(end) == IF Falsy(end) THEN MaxEA ELSE end

\* Heads, lines 193-195: ea when the loop is first reached
HeadsFirst(start, end) ==
    IF isHead(HeadsStart(start)) THEN HeadsStart(start)
    ELSE next_head(HeadsStart(start), HeadsEnd(end))

\* the ea the loop test of line 196 sees when next() is called
HeadsCandidate ==
    IF hPc = "created" THEN HeadsFirst(hArgs[1], hArgs[2])
    ELSE next_head(hEa, hEnd)

HeadsIdle ==
    /\ hPc = "none"
    /\ hArgs = <<NoneArg, NoneArg>>
    /\ hEa = BADADDR
    /\ hEnd = BADADDR
    /\ hOut = <<>>

InitHeads ==
    /\ headSet \in SUBSET ImageAddrs
    /\ HeadsIdle

RestHeads ==
    /\ headSet = {}
    /\ HeadsIdle

\* Heads(start, end): a generator, its body not begun
HeadsCall(start, end) ==
    /\ hPc = "none"
    /\ hPc' = "created"
    /\ hArgs' = <<start, end>>
    /\ UNCHANGED <<headSet, hEa, hEnd, hOut, notHeads>>

\* next() on the generator: line 197 yields ea
HeadsYield ==
    /\ hPc \in {"created", "running"}
    /\ HeadsCandidate # BADADDR
    /\ hEa' = HeadsCandidate
    /\ hEnd' = HeadsEnd(hArgs[2])
    /\ hOut' = Append(hOut, HeadsCandidate)
    /\ hPc' = "running"
    /\ UNCHANGED <<headSet, hArgs, notHeads>>

\* next() on the generator: the loop of line 196 ends
HeadsStop ==
    /\ hPc \in {"created", "running"}
    /\ HeadsCandidate = BADADDR
    /\ hEa' = BADADDR
    /\ hEnd' = HeadsEnd(hArgs[2])
    /\ hPc' = "done"
    /\ UNCHANGED <<headSet, hArgs, hOut, notHeads>>

NextHeads ==
    \/ \E start \in AddrArgs, end \in AddrArgs : HeadsCall(start, end)
    \/ HeadsYield
    \/ HeadsStop

-----------------------------------------------------------------------------
(* Register descriptor cache: procregs, class _procregs *)

\* the names looked up on procregs
RegNames == {"al", "ax"}

\* reg_info_t: what the engine's parser says of a name it knows
RegInfos == {[reg |-> 16, size |-> 1], [reg |-> 0, size |-> 2], [reg |-> 0, size |-> 8]}
\* reg_info_t(), before the parser has filled it
NoReg == [reg |-> 0 - 1, size |-> 0]

\* idaapi.parse_reg_name(attr, ri): whether the engine knows the name; ri is
\* then table[attr]
parse_reg_name(table, attr) == table[attr] # NoReg

\* ord(idaapi.get_dtyp_by_size(size)): dt_byte, dt_word, dt_dword, dt_qword
get_dtyp_by_size(n) ==
    CASE n = 1 -> 0
      [] n = 2 -> 1
      [] n = 4 -> 2
      [] n = 8 -> 7
      [] OTHER -> 255

\* _reg_dtyp_t(reg, dtyp), lines 518-520
RegDtyp(reg, dtyp) == [reg |-> reg, dtyp |-> dtyp]
\* the descriptor line 531 builds from a filled reg_info_t
DescriptorOf(ri) == RegDtyp(ri.reg, get_dtyp_by_size(ri.size))
Descriptors == {DescriptorOf(ri) : ri \in RegInfos}
NoDescriptor == RegDtyp(0 - 1, 0 - 1)

\* an instance __dict__ with no attribute
EmptyDict == [n \in {} |-> NoDescriptor]

\* InstanceHas with a fault: every access goes to __getattr__, as if the
\* class defined __getattribute__
InstanceHasNever(dict, attr) == FALSE
\* Python's attribute lookup: __getattr__ is called only when the name is
\* not found in the instance's __dict__
InstanceHas(dict, attr) == attr \in DOMAIN dict

\* DictAfterMiss with a fault: the failure is remembered in __dict__
DictAfterMissRemembered(dict, attr) == (attr :> NoDescriptor) @@ dict
\* __getattr__, lines 529-530: __dict__ when the parser does not know the
\* name; AttributeError is raised before line 532
DictAfterMiss(dict, attr) == dict

\* DictAfterSetattr with a fault: the value is stored
DictAfterSetattrStored(dict, attr, value) == (attr :> value) @@ dict
\* __setattr__, lines 535-536: __dict__ after an assignment; only
\* AttributeError is raised
DictAfterSetattr(dict, attr, value) == dict

RegValue(r) == [kind |-> "value", val |-> r]
RegError == [kind |-> "AttributeError", val |-> NoDescriptor]

NoRegOp == [op |-> "none", name |-> "", value |-> NoDescriptor, result |-> RegError,
            parsed |-> 0, dict0 |-> EmptyDict, seen0 |-> EmptyDict, ri0 |-> NoReg]

RegsIdle ==
    /\ procDict = EmptyDict
    /\ regSeen = EmptyDict
    /\ regFailed = {}
    /\ regOp = NoRegOp

InitRegs ==
    /\ regTable \in [RegNames -> RegInfos \cup {NoReg}]
    /\ RegsIdle

RestRegs ==
    /\ regTable = [n \in RegNames |-> NoReg]
    /\ RegsIdle

\* procregs.<attr> when the instance has the attribute: the cached object,
\* __getattr__ is not called
GetAttrCached(attr) ==
    /\ InstanceHas(procDict, attr)
    /\ regOp' = [op |-> "get", name |-> attr, value |-> NoDescriptor,
                 result |-> RegValue(procDict[attr]), parsed |-> 0,
                 dict0 |-> procDict, seen0 |-> regSeen, ri0 |-> regTable[attr]]
    /\ regSeen' = IF attr \in DOMAIN regSeen THEN regSeen
                  ELSE (attr :> procDict[attr]) @@ regSeen
    /\ UNCHANGED <<regTable, procDict, regFailed, notRegs>>

\* procregs.<attr> otherwise: __getattr__, lines 527-533, the parser knows
\* the name
GetAttrResolves(attr) ==
    /\ ~InstanceHas(procDict, attr)
    /\ parse_reg_name(regTable, attr)
    /\ LET r == DescriptorOf(regTable[attr])
       IN  /\ procDict' = (attr :> r) @@ procDict
           /\ regOp' = [op |-> "get", name |-> attr, value |-> NoDescriptor,
                        result |-> RegValue(r), parsed |-> 1,
                        dict0 |-> procDict, seen0 |-> regSeen, ri0 |-> regTable[attr]]
           /\ regSeen' = IF attr \in DOMAIN regSeen THEN regSeen
                         ELSE (attr :> r) @@ regSeen
    /\ UNCHANGED <<regTable, regFailed, notRegs>>

\* __getattr__, lines 529-530: the parser does not know the name
GetAttrUnknown(attr) ==
    /\ ~InstanceHas(procDict, attr)
    /\ ~parse_reg_name(regTable, attr)
    /\ procDict' = DictAfterMiss(procDict, attr)
    /\ regFailed' = regFailed \cup {attr}
    /\ regOp' = [op |-> "get", name |-> attr, value |-> NoDescriptor,
                 result |-> RegError, parsed |-> 1,
                 dict0 |-> procDict, seen0 |-> regSeen, ri0 |-> regTable[attr]]
    /\ UNCHANGED <<regTable, regSeen, notRegs>>

\* procregs.<attr> = value: __setattr__, lines 535-536
SetAttr(attr, value) ==
    /\ procDict' = DictAfterSetattr(procDict, attr, value)
    /\ regOp' = [op |-> "set", name |-> attr, value |-> value,
                 result |-> RegError, parsed |-> 0,
                 dict0 |-> procDict, seen0 |-> regSeen, ri0 |-> regTable[attr]]
    /\ UNCHANGED <<regTable, regSeen, regFailed, notRegs>>

\* the engine's register names change (another processor module)
RegTableChanges(attr, ri) ==
    /\ regTable[attr] # ri
    /\ regTable' = [regTable EXCEPT ![attr] = ri]
    /\ UNCHANGED <<procDict, regSeen, regFailed, regOp, notRegs>>

NextRegs ==
    \/ \E attr \in RegNames : GetAttrCached(attr)
    \/ \E attr \in RegNames : GetAttrResolves(attr)
    \/ \E attr \in RegNames : GetAttrUnknown(attr)
    \/ \E attr \in RegNames, value \in Descriptors : SetAttr(attr, value)
    \/ \E attr \in RegNames, ri \in RegInfos \cup {NoReg} : RegTableChanges(attr, ri)

-----------------------------------------------------------------------------
(* Live register proxy: cpu, class _cpu *)

\* the registers read and written, and the values they take
CpuNames == {"eax", "ebx"}
CpuVals == 0 .. 2

\* idc.GetRegValue(name)
GetRegValue(regs, name) == regs[name]
\* idc.SetRegValue(value, name): the engine's registers afterwards
SetRegValue(regs, value, name) == [regs EXCEPT ![name] = value]

\* CpuDictAfterSetattr with a fault: the value is kept in __dict__ as well
CpuDictAfterSetattrStored(dict, name, value) == (name :> value) @@ dict
\* __setattr__, lines 544-546: __dict__ after an assignment; the value goes
\* to the engine only
CpuDictAfterSetattr(dict, name, value) == dict

\* the last access: regs0 and regs1 are the engine's registers before and
\* after it
NoCpuOp == [op |-> "none", name |-> "", value |-> 0, result |-> 0, calls |-> <<>>,
            regs0 |-> [n \in CpuNames |-> 0], regs1 |-> [n \in CpuNames |-> 0]]

CpuIdle ==
    /\ cpuDict = EmptyDict
    /\ cpuWritten = EmptyDict
    /\ cpuOp = NoCpuOp

InitCpu ==
    /\ cpuRegs \in [CpuNames -> CpuVals]
    /\ CpuIdle

RestCpu ==
    /\ cpuRegs = [n \in CpuNames |-> 0]
    /\ CpuIdle

\* cpu.<name>: the attribute of the instance when it has one, __getattr__
\* (lines 540-542) otherwise
CpuGet(name) ==
    /\ IF InstanceHas(cpuDict, name)
       THEN cpuOp' = [op |-> "get", name |-> name, value |-> 0,
                      result |-> cpuDict[name], calls |-> <<>>, regs0 |-> cpuRegs,
                      regs1 |-> cpuRegs]
       ELSE cpuOp' = [op |-> "get", name |-> name, value |-> 0,
                      result |-> GetRegValue(cpuRegs, name),
                      calls |-> <<[fn |-> "GetRegValue", name |-> name, value |-> 0]>>,
                      regs0 |-> cpuRegs, regs1 |-> cpuRegs]
    /\ UNCHANGED <<cpuRegs, cpuDict, cpuWritten, notCpu>>

\* cpu.<name> = value: __setattr__, lines 544-546
CpuSet(name, value) ==
    /\ cpuRegs' = SetRegValue(cpuRegs, value, name)
    /\ cpuDict' = CpuDictAfterSetattr(cpuDict, name, value)
    /\ cpuWritten' = (name :> value) @@ cpuWritten
    /\ cpuOp' = [op |-> "set", name |-> name, value |-> value, result |-> 0,
                 calls |-> <<[fn |-> "SetRegValue", name |-> name, value |-> value]>>,
                 regs0 |-> cpuRegs, regs1 |-> SetRegValue(cpuRegs, value, name)]
    /\ UNCHANGED notCpu

\* the debugged program runs: the engine changes a register itself
CpuEngineStep(name, value) ==
    /\ cpuRegs[name] # value
    /\ cpuRegs' = [cpuRegs EXCEPT ![name] = value]
    /\ UNCHANGED <<cpuDict, cpuWritten, cpuOp, notCpu>>

NextCpu ==
    \/ \E name \in CpuNames : CpuGet(name)
    \/ \E name \in CpuNames, value \in CpuVals : CpuSet(name, value)
    \/ \E name \in CpuNames, value \in CpuVals : CpuEngineStep(name, value)

-----------------------------------------------------------------------------
(* Reference snapshots: XrefsFrom / XrefsTo *)

\* the addresses cross-references lie between
XrefAddrs == {MinEA, MinEA + 1}

\* the cross-references the engine may hold: an ordinary flow and a user
\* defined data read (type codes of lines 112 and 120), between any two
\* addresses
XrefRecords ==
    {[frm |-> f, to |-> t, iscode |-> k.iscode, type |-> k.type, user |-> k.user] :
        f \in XrefAddrs, t \in XrefAddrs,
        k \in {[iscode |-> 1, type |-> 21, user |-> 0],
               [iscode |-> 0, type |-> 3, user |-> 1]}}

\* the flags of a call: 0 (XREF_ALL) and 1 (XREF_FAR, no ordinary flow)
XrefFlags == {0, 1}

NoDuplicate(s) == \A i, j \in 1 .. Len(s) : s[i] = s[j] => i = j

\* whether the engine's enumeration for the call includes the record
XrefMatches(r, args) ==
    /\ IF args.dir = "from" THEN r.frm = args.ea ELSE r.to = args.ea
    /\ args.flags = 1 => r.type # 21

\* xrefblk_t.first_from / first_to (pos = 0) and next_from / next_to: the
\* place in the engine's table of the next record of the enumeration, 0 when
\* there is none
XrefNextPos(table, pos, args) ==
    LET later == {i \in (pos + 1) .. Len(table) : XrefMatches(table[i], args)}
    IN  IF later = {} THEN 0 ELSE CHOOSE i \in later : \A j \in later : i <= j

\* idaapi.xrefblk_t(), line 149
NoXref == [frm |-> BADADDR, to |-> BADADDR, iscode |-> 0, type |-> 0, user |-> 0]
NewXrefblk == [pos |-> 0, rec |-> NoXref]

\* _copy_xref with a fault: the cursor itself is handed out
ShareXref(xref) == [shared |-> TRUE, val |-> xref.rec]
\* _copy_xref, lines 126-134: a new object with the five attributes of the
\* cursor
_copy_xref(xref) ==
    [shared |-> FALSE,
     val |-> [frm |-> xref.rec.frm, to |-> xref.rec.to, iscode |-> xref.rec.iscode,
              type |-> xref.rec.type, user |-> xref.rec.user]]

\* the attributes the caller reads from a yielded object
XrefFields(o) == IF o.shared THEN xCur.rec ELSE o.val

NoXrefArgs == [dir |-> "from", ea |-> BADADDR, flags |-> 0]

XrefsIdle ==
    /\ xPc = "none"
    /\ xArgs = NoXrefArgs
    /\ xCur = NewXrefblk
    /\ xOut = <<>>
    /\ xSteps = <<>>

InitXrefs ==
    /\ xrefTable \in {s \in SeqsUpTo(XrefRecords, MaxXrefs) : NoDuplicate(s)}
    /\ XrefsIdle

RestXrefs ==
    /\ xrefTable = <<>>
    /\ XrefsIdle

\* XrefsFrom(ea, flags) / XrefsTo(ea, flags): a generator, its body not begun
XrefsCall(dir, ea, flags) ==
    /\ xPc = "none"
    /\ xPc' = "created"
    /\ xArgs' = [dir |-> dir, ea |-> ea, flags |-> flags]
    /\ UNCHANGED <<xrefTable, xCur, xOut, xSteps, notXrefs>>

\* next() on the generator: first_from / first_to (lines 150, 169) or
\* next_from / next_to (lines 152, 171) succeeds, the cursor holds the
\* record and its copy is yielded
XrefsYield ==
    /\ xPc \in {"created", "running"}
    /\ LET pos == XrefNextPos(xrefTable, xCur.pos, xArgs)
           cur == [pos |-> pos, rec |-> xrefTable[pos]]
       IN  /\ pos # 0
           /\ xCur' = cur
           /\ xOut' = Append(xOut, _copy_xref(cur))
           /\ xSteps' = Append(xSteps, xrefTable[pos])
    /\ xPc' = "running"
    /\ UNCHANGED <<xrefTable, xArgs, notXrefs>>

\* next() on the generator: the cursor's query fails, the generator ends
XrefsStop ==
    /\ xPc \in {"created", "running"}
    /\ XrefNextPos(xrefTable, xCur.pos, xArgs) = 0
    /\ xPc' = "done"
    /\ UNCHANGED <<xrefTable, xArgs, xCur, xOut, xSteps, notXrefs>>

NextXrefs ==
    \/ \E dir \in {"from", "to"}, ea \in XrefAddrs, flags \in XrefFlags :
          XrefsCall(dir, ea, flags)
    \/ XrefsYield
    \/ XrefsStop

-----------------------------------------------------------------------------
(* Instruction decoder: DecodeInstruction *)

\* idaapi.UA_MAXOP: the most operands an instruction has
UA_MAXOP == 6
\* idaapi.o_void: the type of an operand slot that is not used
o_void == 0
\* operand types: o_void, o_reg, o_imm
OpTypes == {o_void, 1, 5}

\* the address at which the engine finds an instruction
DecodeAddr == MinEA
DecodeArgs == {MinEA, MinEA + 1}

\* what the engine may hold at DecodeAddr: inslen is the result of
\* decode_insn, insn whether get_current_instruction gives a record, ops the
\* types of the operand slots 0 .. UA_MAXOP-1
DecodedInsns ==
    [inslen : {0, 2}, insn : BOOLEAN, ops : [0 .. (UA_MAXOP - 1) -> OpTypes]]

\* idaapi.decode_insn(ea)
decode_insn(ea) == IF ea = DecodeAddr THEN decInsn.inslen ELSE 0
\* idaapi.get_current_instruction(): whether there is a record
get_current_instruction == decInsn.insn
\* idaapi.get_instruction_operand(insn, n): the op_t of slot n
get_instruction_operand(n) ==
    [n |-> n, type |-> decInsn.ops[n], reg |-> n + 1, dtyp |-> n % 3]

\* _op(t), lines 294-297: the attributes of the op_t, reg and dtyp among them
OpCopy(t) == [n |-> t.n, type |-> t.type, reg |-> t.reg, dtyp |-> t.dtyp]

\* EndsOperands with a fault: a void operand is kept and the loop goes on
EndsOperandsNever(t) == FALSE
\* line 308: the operand that ends the loop
EndsOperands(t) == t.type = o_void

DecodeIdle ==
    /\ dPc = "none"
    /\ dEa = BADADDR
    /\ dN = 0
    /\ dOperands = <<>>
    /\ dResult = "none"
    /\ dAsked = <<>>

InitDecode ==
    /\ decInsn \in DecodedInsns
    /\ DecodeIdle

RestDecode ==
    /\ decInsn = [inslen |-> 0, insn |-> FALSE, ops |-> [n \in 0 .. (UA_MAXOP - 1) |-> o_void]]
    /\ DecodeIdle

\* DecodeInstruction(ea), lines 281-283: the engine decodes nothing
DecodeNoLength(ea) ==
    /\ dPc = "none"
    /\ decode_insn(ea) = 0
    /\ dEa' = ea
    /\ dPc' = "returned"
    /\ dResult' = "None"
    /\ UNCHANGED <<decInsn, dN, dOperands, dAsked, notDecode>>

\* lines 284-286: the engine has no current instruction
DecodeNoRecord(ea) ==
    /\ dPc = "none"
    /\ decode_insn(ea) # 0
    /\ ~get_current_instruction
    /\ dEa' = ea
    /\ dPc' = "returned"
    /\ dResult' = "None"
    /\ UNCHANGED <<decInsn, dN, dOperands, dAsked, notDecode>>

\* lines 304-306: the record is copied, r.Operands = [], the loop begins
DecodeBegins(ea) ==
    /\ dPc = "none"
    /\ decode_insn(ea) # 0
    /\ get_current_instruction
    /\ dEa' = ea
    /\ dPc' = "loop"
    /\ dN' = 0
    /\ dOperands' = <<>>
    /\ UNCHANGED <<decInsn, dResult, dAsked, notDecode>>

\* lines 307-310: operand n is asked of the engine and appended
DecodeOperand ==
    /\ dPc = "loop"
    /\ dN < UA_MAXOP
    /\ LET t == get_instruction_operand(dN)
       IN  /\ ~EndsOperands(t)
           /\ dOperands' = Append(dOperands, OpCopy(t))
    /\ dAsked' = Append(dAsked, dN)
    /\ dN' = dN + 1
    /\ UNCHANGED <<decInsn, dPc, dEa, dResult, notDecode>>

\* lines 307-309, 311: operand n is void, the loop is left and r returned
DecodeBreak ==
    /\ dPc = "loop"
    /\ dN < UA_MAXOP
    /\ EndsOperands(get_instruction_operand(dN))
    /\ dAsked' = Append(dAsked, dN)
    /\ dPc' = "returned"
    /\ dResult' = "insn"
    /\ UNCHANGED <<decInsn, dEa, dN, dOperands, notDecode>>

\* lines 306, 311: xrange is exhausted, r is returned
DecodeLoopEnds ==
    /\ dPc = "loop"
    /\ dN = UA_MAXOP
    /\ dPc' = "returned"
    /\ dResult' = "insn"
    /\ UNCHANGED <<decInsn, dEa, dN, dOperands, dAsked, notDecode>>

NextDecode ==
    \/ \E ea \in DecodeArgs : DecodeNoLength(ea)
    \/ \E ea \in DecodeArgs : DecodeNoRecord(ea)
    \/ \E ea \in DecodeArgs : DecodeBegins(ea)
    \/ DecodeOperand
    \/ DecodeBreak
    \/ DecodeLoopEnds

-----------------------------------------------------------------------------
(* Function walker: Functions *)

\* func_t: the functions the image may hold
FuncRanges ==
    {f \in [startEA : ImageAddrs, endEA : (MinEA + 1) .. MaxEA] : f.startEA < f.endEA}
\* no two functions of the engine share an address
Disjoint(F) ==
    \A f \in F, g \in F : f # g => (f.endEA <= g.startEA \/ g.endEA <= f.startEA)
\* None, in place of a func_t
NoFunc == [startEA |-> BADADDR, endEA |-> BADADDR]

\* idaapi.get_func(ea): the function that contains ea
get_func(ea) ==
    LET at == {f \in funcSet : f.startEA <= ea /\ ea < f.endEA}
    IN  IF at = {} THEN NoFunc ELSE CHOOSE f \in at : TRUE

\* idaapi.get_next_func(ea): the first function that starts above ea
get_next_func(ea) ==
    LET later == {f \in funcSet : f.startEA > ea}
    IN  IF later = {} THEN NoFunc
        ELSE CHOOSE f \in later : \A g \in later : f.startEA <= g.startEA

\* Functions, lines 215-216
FunctionsStart(start) == IF Falsy(start) THEN MinEA ELSE start
FunctionsEnd(end) == IF Falsy(end) THEN MaxEA ELSE end

\* Functions, lines 218-220: func when the loop is first reached
FunctionsFirst(start) ==
    IF get_func(FunctionsStart(start)) # NoFunc THEN get_func(FunctionsStart(start))
    ELSE get_next_func(FunctionsStart(start))

\* the func the loop test of line 221 sees when next() is called
FunctionsCandidate ==
    IF fPc = "created" THEN FunctionsFirst(fArgs[1])
    ELSE get_next_func(fFunc.startEA)

\* line 221: func and func.startEA < end
FunctionsGoesOn ==
    /\ FunctionsCandidate # NoFunc
    /\ FunctionsCandidate.startEA < FunctionsEnd(fArgs[2])

FuncsIdle ==
    /\ fPc = "none"
    /\ fArgs = <<NoneArg, NoneArg>>
    /\ fFunc = NoFunc
    /\ fEnd = BADADDR
    /\ fOut = <<>>

InitFuncs ==
    /\ funcSet \in {F \in SUBSET FuncRanges : Disjoint(F)}
    /\ FuncsIdle

RestFuncs ==
    /\ funcSet = {}
    /\ FuncsIdle

\* Functions(start, end): a generator, its body not begun
FunctionsCall(start, end) ==
    /\ fPc = "none"
    /\ fPc' = "created"
    /\ fArgs' = <<start, end>>
    /\ UNCHANGED <<funcSet, fFunc, fEnd, fOut, notFuncs>>

\* next() on the generator: line 222 yields func.startEA
FunctionsYield ==
    /\ fPc \in {"created", "running"}
    /\ FunctionsGoesOn
    /\ fFunc' = FunctionsCandidate
    /\ fEnd' = FunctionsEnd(fArgs[2])
    /\ fOut' = Append(fOut, FunctionsCandidate.startEA)
    /\ fPc' = "running"
    /\ UNCHANGED <<funcSet, fArgs, notFuncs>>

\* next() on the generator: the loop of line 221 ends
FunctionsStop ==
    /\ fPc \in {"created", "running"}
    /\ ~FunctionsGoesOn
    /\ fFunc' = FunctionsCandidate
    /\ fEnd' = FunctionsEnd(fArgs[2])
    /\ fPc' = "done"
    /\ UNCHANGED <<funcSet, fArgs, fOut, notFuncs>>

NextFuncs ==
    \/ \E start \in AddrArgs, end \in AddrArgs : FunctionsCall(start, end)
    \/ FunctionsYield
    \/ FunctionsStop

-----------------------------------------------------------------------------
(* Generic forward walker: refs *)

RefAddrs == 1 .. MaxRefAddr
\* the address whose references the engine holds; any other has none
RefSeed == MinEA
RefSeeds == {MinEA, MinEA + 1}

\* funcfirst(ea), e.g. idaapi.get_first_cref_to
funcfirst(ea) == IF ea = RefSeed THEN refFirst ELSE BADADDR
\* funcnext(ea, ref), e.g. idaapi.get_next_cref_to
funcnext(ea, ref) == IF ea = RefSeed /\ ref \in RefAddrs THEN refNext[ref] ELSE BADADDR

\* RefsEnds with a fault: the sentinel is not recognised
RefsEndsNever(ref) == FALSE
\* line 23: the loop ends when ref is BADADDR
RefsEnds(ref) == ref = BADADDR

\* the history keeps this many of the latest references: more than a walk
\* through increasing addresses can yield.  The walk itself has no limit.
RefsKept == MaxRefAddr + 2
\* the history with one more entry
Keep(h, x) == IF Len(h) < RefsKept THEN Append(h, x) ELSE Append(Tail(h), x)

\* the call the generator makes when next() is called: funcfirst at line 22
\* the first time, funcnext at line 25 afterwards
RefsNextCall ==
    IF rPc = "created" THEN [fn |-> "first", ea |-> rEa, ref |-> BADADDR]
    ELSE [fn |-> "next", ea |-> rEa, ref |-> rRef]
\* and its result
RefsCandidate ==
    IF rPc = "created" THEN funcfirst(rEa) ELSE funcnext(rEa, rRef)

RefsIdle ==
    /\ rPc = "none"
    /\ rEa = BADADDR
    /\ rRef = BADADDR
    /\ rOut = <<>>
    /\ rCalls = <<>>
    /\ rDropped = FALSE

InitRefs ==
    /\ refFirst \in RefAddrs \cup {BADADDR}
    /\ refNext \in [RefAddrs -> RefAddrs \cup {BADADDR}]
    /\ RefsIdle

RestRefs ==
    /\ refFirst = BADADDR
    /\ refNext = [a \in RefAddrs |-> BADADDR]
    /\ RefsIdle

\* refs(ea, funcfirst, funcnext): a generator, its body not begun
RefsCall(ea) ==
    /\ rPc = "none"
    /\ rPc' = "created"
    /\ rEa' = ea
    /\ UNCHANGED <<refFirst, refNext, rRef, rOut, rCalls, rDropped, notRefs>>

\* next() on the generator: line 24 yields ref
RefsYield ==
    /\ rPc \in {"created", "running"}
    /\ ~RefsEnds(RefsCandidate)
    /\ rCalls' = Keep(rCalls, RefsNextCall)
    /\ rRef' = RefsCandidate
    /\ rOut' = Keep(rOut, RefsCandidate)
    /\ rDropped' = (rDropped \/ Len(rOut) = RefsKept)
    /\ rPc' = "running"
    /\ UNCHANGED <<refFirst, refNext, rEa, notRefs>>

\* next() on the generator: the loop of line 23 ends
RefsStop ==
    /\ rPc \in {"created", "running"}
    /\ RefsEnds(RefsCandidate)
    /\ rCalls' = Append(rCalls, RefsNextCall)
    /\ rRef' = RefsCandidate
    /\ rPc' = "done"
    /\ UNCHANGED <<refFirst, refNext, rEa, rOut, rDropped, notRefs>>

NextRefs ==
    \/ \E ea \in RefSeeds : RefsCall(ea)
    \/ RefsYield
    \/ RefsStop

-----------------------------------------------------------------------------
(* Specifications, one for each component *)

StartAsm ==
    InitAsm /\ RestMem /\ RestStr /\ RestHeads /\ RestRegs /\ RestCpu
    /\ RestXrefs /\ RestDecode /\ RestFuncs /\ RestRefs
SpecAsm == StartAsm /\ [][NextAsm]_vars

StartMem ==
    RestAsm /\ InitMem /\ RestStr /\ RestHeads /\ RestRegs /\ RestCpu
    /\ RestXrefs /\ RestDecode /\ RestFuncs /\ RestRefs
SpecMem == StartMem /\ [][NextMem]_vars

StartStr ==
    RestAsm /\ RestMem /\ InitStr /\ RestHeads /\ RestRegs /\ RestCpu
    /\ RestXrefs /\ RestDecode /\ RestFuncs /\ RestRefs
SpecStr == StartStr /\ [][NextStr]_vars

StartHeads ==
    RestAsm /\ RestMem /\ RestStr /\ InitHeads /\ RestRegs /\ RestCpu
    /\ RestXrefs /\ RestDecode /\ RestFuncs /\ RestRefs
SpecHeads == StartHeads /\ [][NextHeads]_vars

StartRegs ==
    RestAsm /\ RestMem /\ RestStr /\ RestHeads /\ InitRegs /\ RestCpu
    /\ RestXrefs /\ RestDecode /\ RestFuncs /\ RestRefs
SpecRegs == StartRegs /\ [][NextRegs]_vars

StartCpu ==
    RestAsm /\ RestMem /\ RestStr /\ RestHeads /\ RestRegs /\ InitCpu
    /\ RestXrefs /\ RestDecode /\ RestFuncs /\ RestRefs
SpecCpu == StartCpu /\ [][NextCpu]_vars

StartXrefs ==
    RestAsm /\ RestMem /\ RestStr /\ RestHeads /\ RestRegs /\ RestCpu
    /\ InitXrefs /\ RestDecode /\ RestFuncs /\ RestRefs
SpecXrefs == StartXrefs /\ [][NextXrefs]_vars

StartDecode ==
    RestAsm /\ RestMem /\ RestStr /\ RestHeads /\ RestRegs /\ RestCpu
    /\ RestXrefs /\ InitDecode /\ RestFuncs /\ RestRefs
SpecDecode == StartDecode /\ [][NextDecode]_vars

StartFuncs ==
    RestAsm /\ RestMem /\ RestStr /\ RestHeads /\ RestRegs /\ RestCpu
    /\ RestXrefs /\ RestDecode /\ InitFuncs /\ RestRefs
SpecFuncs == StartFuncs /\ [][NextFuncs]_vars

StartRefs ==
    RestAsm /\ RestMem /\ RestStr /\ RestHeads /\ RestRegs /\ RestCpu
    /\ RestXrefs /\ RestDecode /\ RestFuncs /\ InitRefs
SpecRefs == StartRefs /\ [][NextRefs]_vars
\* the caller goes on asking the generator for elements until it ends
SpecRefsLive == SpecRefs /\ WF_vars(RefsYield) /\ WF_vars(RefsStop)

-----------------------------------------------------------------------------
(* Claims about Assemble *)

\* C1: on every exit path of Assemble (all lines assembled, no segment, a
\* rejected line, or an error raised while a line is fetched or assembled)
\* the engine's interaction mode equals the mode it had immediately before
\* the call, and while lines are being assembled the mode is batch.
C1_ModeRestoredOnEveryExit ==
    /\ (asmPc = "loop" => batch = 1)
    /\ (asmPc \in {"returned", "raised"} => batch = asmBatch0)

RECURSIVE SumBufLens(_, _)
SumBufLens(log, k) == IF k = 0 THEN 0 ELSE SumBufLens(log, k - 1) + Len(log[k].buf)

AllAccepted(log, n) == \A k \in 1 .. n : log[k].buf # <<>>

\* C4: lines are submitted to the assembler strictly in order, line k at the
\* start address plus the lengths of buffers 1..k-1; the call returns
\* (False, message) at the first line with no segment or rejected by the
\* assembler, no later line is submitted, and what the engine assembled
\* before it stays as it was (nothing is rolled back); with no failing line
\* every line is submitted and the buffers are returned.
C4_InOrderStopAtFirstFailure ==
    (asmPc \in {"loop", "returned", "raised"} /\ asmLines # NotIterable) =>
        LET n == Len(asmLog) IN
        /\ n <= Len(asmLines)
        /\ \A k \in 1 .. n :
              /\ asmLog[k].line = asmLines[k]
              /\ asmLog[k].ea = asmStart + SumBufLens(asmLog, k - 1)
        /\ AllAccepted(asmLog, n - 1)
        /\ (asmPc = "returned" /\ asmResult.kind = "fail") =>
              \/ /\ n > 0
                 /\ asmLog[n].buf = <<>>
                 /\ asmResult.msg = "Assembler failed: " \o asmLines[n]
              \/ /\ n < Len(asmLines)
                 /\ AllAccepted(asmLog, n)
                 /\ ~getseg(asmStart + SumBufLens(asmLog, n))
                 /\ asmResult.msg = "No segment at ea"
        /\ (asmPc = "returned" /\ asmResult.kind # "fail") =>
              /\ n = Len(asmLines)
              /\ AllAccepted(asmLog, n)
              /\ asmResult.bufs = [k \in 1 .. n |-> asmLog[k].buf]

\* a three-line call whose first line gave a two-byte buffer and whose second
\* line was rejected: the third line was never submitted
C4_Witness ==
    /\ asmPc = "returned"
    /\ asmResult.kind = "fail"
    /\ asmLines # NotIterable
    /\ Len(asmLines) = 3
    /\ Len(asmLog) = 2
    /\ Len(asmLog[1].buf) = 2
    /\ asmLog[2].buf = <<>>
    /\ asmLog[2].ea = asmStart + 2

-----------------------------------------------------------------------------
(* Claims about GetDataList / PutDataList / MapDataList *)

NonNeg(n) == IF n < 0 THEN 0 ELSE n

\* C2: in MapDataList every one of the count engine reads happens before the
\* first engine write: no read follows a patch, the reads are complete when
\* the first patch is made, and every patched value is func applied to the
\* word that memory held before the call.
C2_MapReadsBeforeWrites ==
    memCall.op = "map" =>
        LET w == memCall.itemsize
            ea == memCall.ea
        IN  /\ ~rdAfterWr
            /\ (wrLog # <<>> => Len(rdLog) = NonNeg(memCall.count))
            /\ \A k \in 1 .. Len(rdLog) : rdLog[k] = ea + (k - 1) * w
            /\ \A k \in 1 .. Len(wrLog) :
                  /\ wrLog[k].ea = ea + (k - 1) * w
                  /\ wrLog[k].val =
                        ApplyFunc(memCall.func, ReadWord(mem0, ea + (k - 1) * w, w),
                                  mem0, ea)

\* a finished in-place map of three words with a function that looks at the
\* first byte of the range, which the first patch changed
C2_Witness ==
    /\ memCall.op = "map"
    /\ memCall.func = "addfirst"
    /\ memPc = "done"
    /\ Len(rdLog) = 3
    /\ Len(wrLog) = 3
    /\ mem[memCall.ea] # mem0[memCall.ea]

\* C8: GetDataList with a width outside {1, 2, 4, 8} signals the error at the
\* call itself: once the call has been made the error has been raised, no
\* sequence is in the caller's hands and nothing was read.
C8_InvalidWidthSignalledAtCall ==
    (memCall.op = "get" /\ memCall.itemsize \notin {1, 2, 4, 8}) =>
        /\ memPc = "raised"
        /\ memErr = "ValueError"
        /\ rdLog = <<>>

\* C9: PutDataList with a width outside {1, 2, 4} (8 included) fails its
\* assertion before any value is written and memory stays as it was; with a
\* width in {1, 2, 4} value i is patched at ea + i*width, in list order, and
\* when the call is done only those bytes changed.
C9_PutWidthsAndOrder ==
    memCall.op = "put" =>
        LET w == memCall.itemsize
            ea == memCall.ea
            vals == memCall.vals
        IN  /\ w \notin {1, 2, 4} =>
                  /\ memPc = "raised"
                  /\ memErr = "AssertionError"
                  /\ wrLog = <<>>
                  /\ mem = mem0
            /\ w \in {1, 2, 4} =>
                  /\ memPc \in {"put", "done"}
                  /\ memErr = "none"
                  /\ Len(wrLog) <= Len(vals)
                  /\ \A k \in 1 .. Len(wrLog) :
                        wrLog[k] = [ea |-> ea + (k - 1) * w, val |-> vals[k]]
                  /\ memPc = "done" =>
                        /\ Len(wrLog) = Len(vals)
                        /\ \A a \in MemAddrs :
                              mem[a] =
                                IF a >= ea /\ a < ea + w * Len(vals)
                                THEN (vals[((a - ea) \div w) + 1]
                                        \div Pow256((a - ea) % w)) % 256
                                ELSE mem0[a]

\* a write of one value with width 8, which GetDataList accepts, was refused
C9_Witness ==
    /\ memCall.op = "put"
    /\ memCall.itemsize = 8
    /\ Len(memCall.vals) = 1
    /\ memPc = "raised"
    /\ memErr = "AssertionError"

\* C10: PutDataList(a, GetDataList(a, n, w), w) with w in {1, 2, 4} leaves
\* every byte of memory as it was before the call, at every step and at the
\* end, and every word of the range was read and patched.
C10_RoundTripIsIdentity ==
    (memCall.op = "roundtrip" /\ memCall.itemsize \in {1, 2, 4}) =>
        /\ mem = mem0
        /\ memErr = "none"
        /\ memPc = "done" =>
              /\ Len(wrLog) = NonNeg(memCall.count)
              /\ \A k \in 1 .. Len(wrLog) :
                    /\ rdLog[k] = memCall.ea + (k - 1) * memCall.itemsize
                    /\ wrLog[k].ea = rdLog[k]

\* a finished round trip of two 2-byte words: the second word was read after
\* the first was patched
C10_Witness ==
    /\ memCall.op = "roundtrip"
    /\ memCall.itemsize = 2
    /\ memCall.ea = 0
    /\ memPc = "done"
    /\ Len(wrLog) = 2
    /\ rdAfterWr

\* C19: a MapDataList call that ends in an error, whichever it is (the
\* ValueError of a width GetDataList does not know, the AssertionError of
\* width 8, the error of func on some word), has patched nothing: the
\* engine's bytes are those the call found.
C19_FailedMapWritesNothing ==
    (memCall.op = "map" /\ memPc = "raised") =>
        /\ wrLog = <<>>
        /\ mem = mem0

\* func fails on the second word of the range, after the first word went
\* through it
C19_Witness ==
    /\ memCall.op = "map"
    /\ memPc = "raised"
    /\ memErr = "FuncError"
    /\ Len(rdLog) = 2
    /\ Len(memOut) = 1

-----------------------------------------------------------------------------
(* Claims about Strings *)

\* C3: Strings.refresh(x, x), for any address x, and clear_cache(), which
\* passes x = 0, ask the engine to rescan the empty range [x, x) and leave
\* the object with size 0.
C3_RefreshOfEmptyRangeClears ==
    /\ (strOp.op = "refresh" /\ strOp.ea1 = strOp.ea2 /\ strOp.ea1 # NoneArg) =>
          /\ strScan = <<strOp.ea1, strOp.ea2>>
          /\ size = 0
    /\ strOp.op = "clear_cache" =>
          /\ strScan = <<0, 0>>
          /\ size = 0

\* C5: whenever a Strings object exists and a setup or refresh has been
\* performed on it (the constructor's default setup included), size is the
\* item count the engine reported at the most recent of them.
C5_SizeIsLastReportedCount ==
    (strMade /\ strLastQty # NoneArg) => size = strLastQty

\* C7: Strings.__getitem__(index) signals the end of the sequence for every
\* index outside [0, size), negative ones included, without asking the
\* engine; for an index inside it asks the engine once and gives the item
\* the engine holds there, or no item when the engine's fetch fails.
C7_GetOutsideRangeEndsSequence ==
    strOp.op = "get" =>
        /\ (strOp.index < 0 \/ strOp.index >= size) =>
              /\ strGet.kind = "stop"
              /\ strGet.asked = 0
        /\ (strOp.index >= 0 /\ strOp.index < size) =>
              /\ strGet.asked = 1
              /\ strGet.kind \in {"item", "noitem"}
              /\ strGet.kind = "item" => strGet.item = strlist[strOp.index + 1]
              /\ strGet.kind = "noitem" => strOp.index >= Len(strlist)

\* the range a call of setup names: ea1 and ea2, None meaning the image's
\* bounds
SetupRangeStart == IF strOp.cfg.ea1 = NoneArg THEN MinEA ELSE strOp.cfg.ea1
SetupRangeEnd == IF strOp.cfg.ea2 = NoneArg THEN MaxEA ELSE strOp.cfg.ea2

\* C16: after Strings.setup the options the engine's string scanner holds
\* are the parameters of the call, every one of them: the string types, the
\* minimal length, the 7-bit restriction, whether strings in instructions
\* are ignored, the range and whether only existing strings are shown.
C16_SetupPushesEveryField ==
    strOp.op = "setup" =>
        /\ strOpts.strtypes = strOp.cfg.strtypes
        /\ strOpts.minlen = strOp.cfg.minlen
        /\ strOpts.only_7bit = strOp.cfg.only_7bit
        /\ strOpts.ignore_instructions = strOp.cfg.ignore_instructions
        /\ strOpts.ea1 = SetupRangeStart
        /\ strOpts.ea2 = SetupRangeEnd
        /\ strOpts.display_only_existing_strings =
              strOp.cfg.display_only_existing_strings

-----------------------------------------------------------------------------
(* Claims about Heads *)

\* the range a call of Heads names: its arguments, None meaning the image's
\* bounds
HeadsRangeStart == IF hArgs[1] = NoneArg THEN MinEA ELSE hArgs[1]
HeadsRangeEnd == IF hArgs[2] = NoneArg THEN MaxEA ELSE hArgs[2]

\* C6: for any range [s, e), s = 0, e = 0, s = e and s > e included,
\* Heads(s, e) yields strictly increasing addresses, each of them a head
\* lying in [s, e); for an empty range it yields nothing.
C6_HeadsIncreasingWithinRange ==
    hPc # "none" =>
        \A k \in 1 .. Len(hOut) :
            /\ isHead(hOut[k])
            /\ (k > 1 => hOut[k - 1] < hOut[k])
            /\ hOut[k] >= HeadsRangeStart
            /\ hOut[k] < HeadsRangeEnd

-----------------------------------------------------------------------------
(* Claims about procregs *)

\* C11: once a name has been resolved on procregs, every later resolution
\* of it gives the descriptor the first one gave, the same register number
\* and dtyp, and does not call the engine's parse_reg_name, whatever was
\* resolved or assigned in between and whatever the engine would answer now.
C11_ResolvedNameIsMemoized ==
    (regOp.op = "get" /\ regOp.name \in DOMAIN regOp.seen0) =>
        /\ regOp.result = RegValue(regOp.seen0[regOp.name])
        /\ regOp.parsed = 0

\* a resolved name is resolved again after the engine's answer for it has
\* changed
C11_Witness ==
    /\ regOp.op = "get"
    /\ regOp.name \in DOMAIN regOp.seen0
    /\ regOp.ri0 # NoReg
    /\ DescriptorOf(regOp.ri0) # regOp.result.val
    /\ regOp.result.kind = "value"

\* C12: an assignment to any name on procregs, resolved or not, known to
\* the engine or not, raises AttributeError and leaves __dict__, the cached
\* names and their descriptors, as it was.
C12_AssignmentRejected ==
    regOp.op = "set" =>
        /\ regOp.result = RegError
        /\ procDict = regOp.dict0

\* an assignment to a resolved name of a descriptor other than the cached one
C12_Witness ==
    /\ regOp.op = "set"
    /\ regOp.name \in DOMAIN procDict
    /\ regOp.value # procDict[regOp.name]
    /\ regFailed # {}

\* C20: procregs.__dict__ holds only names the engine's parser resolved,
\* each with the descriptor built from the parser's answer; resolving a name
\* not resolved before asks the parser once, and when the parser does not
\* know the name AttributeError is raised and __dict__ stays as it was, so
\* the name is asked of the parser again the next time.
C20_OnlyResolvedNamesCached ==
    /\ \A n \in DOMAIN procDict :
          /\ n \in DOMAIN regSeen
          /\ procDict[n] \in Descriptors
    /\ (regOp.op = "get" /\ regOp.name \notin DOMAIN regOp.seen0) =>
          /\ regOp.parsed = 1
          /\ IF regOp.ri0 = NoReg
             THEN /\ regOp.result = RegError
                  /\ procDict = regOp.dict0
                  /\ regOp.name \notin DOMAIN procDict
             ELSE /\ regOp.result = RegValue(DescriptorOf(regOp.ri0))
                  /\ procDict[regOp.name] = DescriptorOf(regOp.ri0)

\* a name whose resolution failed is resolved once the engine knows it
C20_Witness ==
    /\ regOp.op = "get"
    /\ regOp.name \in regFailed
    /\ regOp.result.kind = "value"
    /\ regOp.parsed = 1

-----------------------------------------------------------------------------
(* Claims about cpu *)

\* C13: a read of a register through cpu makes one engine call,
\* GetRegValue of that name, and gives the value the engine holds at that
\* moment; a write makes one engine call, SetRegValue of the value and the
\* name, after which the engine holds the value; cpu itself keeps nothing.
C13_CpuForwardsEveryAccess ==
    /\ cpuDict = EmptyDict
    /\ cpuOp.op = "get" =>
          /\ cpuOp.calls = <<[fn |-> "GetRegValue", name |-> cpuOp.name, value |-> 0]>>
          /\ cpuOp.result = cpuOp.regs0[cpuOp.name]
          /\ cpuOp.regs1 = cpuOp.regs0
    /\ cpuOp.op = "set" =>
          /\ cpuOp.calls =
                <<[fn |-> "SetRegValue", name |-> cpuOp.name, value |-> cpuOp.value]>>
          /\ cpuOp.regs1 = [cpuOp.regs0 EXCEPT ![cpuOp.name] = cpuOp.value]

\* a register written through cpu, changed by the engine since, is read
C13_Witness ==
    /\ cpuOp.op = "get"
    /\ cpuOp.name \in DOMAIN cpuWritten
    /\ cpuOp.result # cpuWritten[cpuOp.name]
    /\ cpuOp.result = cpuRegs[cpuOp.name]

-----------------------------------------------------------------------------
(* Claims about XrefsFrom / XrefsTo *)

RECURSIVE XrefsMatching(_, _)
\* the records of the engine's table the call enumerates, in order
XrefsMatching(table, args) ==
    IF table = <<>> THEN <<>>
    ELSE IF XrefMatches(Head(table), args)
         THEN <<Head(table)>> \o XrefsMatching(Tail(table), args)
         ELSE XrefsMatching(Tail(table), args)

\* C14: every object XrefsFrom / XrefsTo has yielded carries frm, to,
\* iscode, type and user as the cursor held them at its step, and keeps them
\* while the cursor moves on and after the traversal has ended; the yielded
\* records are the engine's enumeration in order, and nothing is yielded
\* when the first query fails.
C14_YieldedXrefsAreSnapshots ==
    xPc # "none" =>
        /\ Len(xOut) = Len(xSteps)
        /\ \A k \in 1 .. Len(xOut) :
              /\ XrefFields(xOut[k]) = xSteps[k]
              /\ xSteps[k] = XrefsMatching(xrefTable, xArgs)[k]
        /\ xPc = "done" => Len(xOut) = Len(XrefsMatching(xrefTable, xArgs))

\* a traversal of two different references, ended
C14_Witness ==
    /\ xPc = "done"
    /\ Len(xOut) = 2
    /\ XrefFields(xOut[1]) # XrefFields(xOut[2])
    /\ xCur.rec = xSteps[2]

-----------------------------------------------------------------------------
(* Claims about DecodeInstruction *)

\* the index of the first void operand slot, UA_MAXOP when there is none
FirstVoid ==
    LET voids == {n \in 0 .. (UA_MAXOP - 1) : decInsn.ops[n] = o_void}
    IN  IF voids = {} THEN UA_MAXOP ELSE CHOOSE n \in voids : \A m \in voids : n <= m

\* C15: DecodeInstruction returns None when decode_insn gives length 0 or
\* the engine has no current instruction; otherwise the Operands of what it
\* returns are the engine's operands 0 .. k-1 in order, k the index of the
\* first void operand, or UA_MAXOP when none is void: never more than
\* UA_MAXOP, and none when operand 0 is void.
C15_OperandsUpToFirstVoid ==
    dPc = "returned" =>
        IF decode_insn(dEa) = 0 \/ ~get_current_instruction
        THEN dResult = "None"
        ELSE /\ dResult = "insn"
             /\ Len(dOperands) = FirstVoid
             /\ Len(dOperands) <= UA_MAXOP
             /\ \A i \in 1 .. Len(dOperands) :
                   dOperands[i] = OpCopy(get_instruction_operand(i - 1))

\* an instruction of two operands, with used slots after the first void one
C15_Witness ==
    /\ dPc = "returned"
    /\ dResult = "insn"
    /\ Len(dOperands) = 2
    /\ decInsn.ops[3] # o_void
    /\ dAsked = <<0, 1, 2>>

-----------------------------------------------------------------------------
(* Claims about Functions *)

\* the range a call of Functions names: its arguments, None meaning the
\* image's bounds
FunctionsRangeStart == IF fArgs[1] = NoneArg THEN MinEA ELSE fArgs[1]
FunctionsRangeEnd == IF fArgs[2] = NoneArg THEN MaxEA ELSE fArgs[2]

\* C17: Functions(start, end) yields strictly increasing addresses, each the
\* start of a function and each in [start, end), also when start lies inside
\* a function; a function that starts in the range is yielded even when it
\* extends beyond end.
C17_FunctionStartsWithinRange ==
    fPc # "none" =>
        /\ \A k \in 1 .. Len(fOut) :
              /\ \E f \in funcSet : f.startEA = fOut[k]
              /\ (k > 1 => fOut[k - 1] < fOut[k])
              /\ fOut[k] >= FunctionsRangeStart
              /\ fOut[k] < FunctionsRangeEnd
        /\ fPc = "done" =>
              \A f \in funcSet :
                  (f.startEA >= FunctionsRangeStart /\ f.startEA < FunctionsRangeEnd) =>
                      \E k \in 1 .. Len(fOut) : fOut[k] = f.startEA

-----------------------------------------------------------------------------
(* Claims about refs *)

\* the engine's next reference is above the reference it follows
RefsIncreasing == \A a \in RefAddrs : refNext[a] = BADADDR \/ refNext[a] > a

\* what a recorded call of the engine gave
RefsCallResult(c) ==
    IF c.fn = "first" THEN funcfirst(c.ea) ELSE funcnext(c.ea, c.ref)

\* what refs has yielded and called is what its loop prescribes: every
\* yielded reference is the result of its call, the first call is funcfirst,
\* every later one funcnext of the reference yielded before it
RefsWalk ==
    rPc # "none" =>
        /\ \A k \in 1 .. Len(rOut) :
              /\ rOut[k] # BADADDR
              /\ rOut[k] = RefsCallResult(rCalls[k])
        /\ \A k \in 1 .. Len(rCalls) :
              rCalls[k] = IF k = 1 /\ ~rDropped
                          THEN [fn |-> "first", ea |-> rEa, ref |-> BADADDR]
                          ELSE [fn |-> "next", ea |-> rEa,
                                ref |-> IF k = 1 THEN rCalls[1].ref ELSE rOut[k - 1]]
        /\ rPc = "created" => (rCalls = <<>> /\ rOut = <<>>)
        /\ rPc = "running" => Len(rCalls) = Len(rOut)
        /\ rPc = "done" =>
              /\ Len(rCalls) = Len(rOut) + 1
              /\ RefsCallResult(rCalls[Len(rCalls)]) = BADADDR
        /\ rDropped => Len(rOut) = RefsKept

\* C18: refs yields funcfirst(ea), then funcnext(ea, previous) again and
\* again, ends at the first BADADDR and never yields it; it calls nothing
\* before the first element is asked for and funcnext once for each yielded
\* element, when the element after it is asked for; and when the engine's
\* next references increase, a caller that goes on asking reaches the end.
C18_WalkEndsAtSentinel ==
    /\ []RefsWalk
    /\ (rPc = "created" /\ RefsIncreasing) ~> (rPc = "done")

\* a walk through every address, ended
C18_Witness ==
    /\ rPc = "done"
    /\ RefsIncreasing
    /\ Len(rOut) = MaxRefAddr
    /\ Len(rCalls) = MaxRefAddr + 1
    /\ ~rDropped

====
